---- MODULE Spec2Model ----
(***************************************************************************)
(* Model of music_organizer.py: the name sanitizer, the metadata resolver  *)
(* (tag / path / filename / sentinel tiers) and the scan-then-copy batch   *)
(* run of AdvancedMusicOrganizer.organize().                               *)
(*                                                                         *)
(* Python strings are sequences of one-character strings, so that the      *)
(* regular expressions, strip(), split() and lower() of the source are     *)
(* computed character by character.  None is the model value NoneVal.      *)
(***************************************************************************)
EXTENDS Integers, Sequences, FiniteSets, TLC

VARIABLES
    pc,               \* position inside organize() or the function called
    config,           \* self.config (the options organize() reads)
    all_files,        \* all_files: result of get_all_music_files()
    i,                \* index of the next file of the scan loop (1-based)
    duplicates,       \* self.duplicates: content hash -> first-seen file
    near_duplicates,  \* self.near_duplicates: key -> list of files
    quality_stats,    \* self.quality_stats
    stats,            \* self.stats
    organized_files,  \* organized_files: ordered plan, key -> list of file_info
    g,                \* index of the current group of the copy loop
    j,                \* index of the next file inside the current group
    fs,               \* files below organized_path: path -> content written
    dirs,             \* directories below organized_path
    playlists,        \* playlist files written by create_playlists
    reports,          \* report files written by generate_reports
    summary,          \* what the final summary printed (<<>> before)
    arg,              \* argument of the function called
    ret               \* its return value

vars == <<pc, config, all_files, i, duplicates, near_duplicates, quality_stats,
          stats, organized_files, g, j, fs, dirs, playlists, reports, summary,
          arg, ret>>

\* None: a tuple no string of characters equals
NoneVal == <<"None">>

(* ---------------------------------------------------------------------- *)
(* Bounds of the model                                                     *)
(* ---------------------------------------------------------------------- *)
MaxLen == 3        \* longest string handed to clean_name
MaxDirs == 2       \* most directory components between root and file
MaxFiles == 3      \* most files one run enumerates
MaxMinSongs == 2   \* largest configured min_songs_for_playlist

(* ---------------------------------------------------------------------- *)
(* Character classes and string helpers                                    *)
(* ---------------------------------------------------------------------- *)
SeqsUpTo(S, n) == UNION {[1..k -> S] : k \in 0..n}

\* the class [<>:"/\\|?*] of clean_name
IllegalChars == {"<", ">", ":", "\"", "/", "\\", "|", "?", "*"}
\* \s and str.strip(): the whitespace characters the model uses
Whitespace == {" ", "\t"}
Digits == {"0", "1", "2", "3", "4", "5", "6", "7", "8", "9"}

UpperCase == <<"A","B","C","D","E","F","G","H","I","J","K","L","M",
               "N","O","P","Q","R","S","T","U","V","W","X","Y","Z">>
LowerCase == <<"a","b","c","d","e","f","g","h","i","j","k","l","m",
               "n","o","p","q","r","s","t","u","v","w","x","y","z">>

\* str.lower()
LowerChar(c) ==
    IF \E k \in 1..26 : UpperCase[k] = c
    THEN LowerCase[CHOOSE k \in 1..26 : UpperCase[k] = c]
    ELSE c
lower(s) == [k \in 1..Len(s) |-> LowerChar(s[k])]

\* str.isdigit(): non-empty and all digits
isdigit(s) == Len(s) > 0 /\ \A k \in 1..Len(s) : s[k] \in Digits

\* s[a:b] with 1-based inclusive positions a..b
Slice(s, a, b) == IF a > b THEN <<>> ELSE SubSeq(s, a, b)

\* str.strip(chars): drop leading and trailing characters of the set
strip(s, chars) ==
    IF \A k \in 1..Len(s) : s[k] \in chars THEN <<>>
    ELSE LET keep == {k \in 1..Len(s) : s[k] \notin chars}
             lo == CHOOSE k \in keep : \A m \in keep : k <= m
             hi == CHOOSE k \in keep : \A m \in keep : k >= m
         IN  SubSeq(s, lo, hi)

\* sub occurs in s at position k
MatchAt(s, sub, k) ==
    /\ k >= 1
    /\ k + Len(sub) - 1 <= Len(s)
    /\ \A m \in 1..Len(sub) : s[k + m - 1] = sub[m]

\* `sub in s`
Contains(s, sub) == \E k \in 1..(Len(s) + 1) : MatchAt(s, sub, k)

\* s.find(sub) as a 1-based position (0 when absent)
Find(s, sub) ==
    IF Contains(s, sub)
    THEN CHOOSE k \in 1..(Len(s) + 1) :
            MatchAt(s, sub, k) /\ \A m \in 1..(k - 1) : ~MatchAt(s, sub, m)
    ELSE 0

\* s.startswith(prefix)
startswith(s, prefix) == MatchAt(s, prefix, 1)

\* re.sub(r'[<>:"/\\|?*]', '', name)
RemoveIllegal(s) == SelectSeq(s, LAMBDA c : c \notin IllegalChars)

\* re.sub(r'\s+', ' ', name): every whitespace run becomes one space
RECURSIVE CollapseFrom(_, _)
CollapseFrom(s, k) ==
    IF k > Len(s) THEN <<>>
    ELSE IF s[k] \in Whitespace
         THEN (IF k > 1 /\ s[k - 1] \in Whitespace THEN <<>> ELSE <<" ">>)
              \o CollapseFrom(s, k + 1)
         ELSE <<s[k]>> \o CollapseFrom(s, k + 1)
CollapseWhitespace(s) == CollapseFrom(s, 1)

Unknown == <<"U","n","k","n","o","w","n">>

\* clean_name without its final `or "Unknown"`
clean_name_no_fallback(name) ==
    IF name = NoneVal \/ name = <<>> THEN Unknown
    ELSE strip(strip(CollapseWhitespace(RemoveIllegal(name)), Whitespace), {"."})

\* AdvancedMusicOrganizer.clean_name
clean_name(name) ==
    IF name = NoneVal \/ name = <<>> THEN Unknown
    ELSE LET a == RemoveIllegal(name)
             b == strip(CollapseWhitespace(a), Whitespace)
             c == strip(b, {"."})
         IN  IF c = <<>> THEN Unknown ELSE c

(* ---------------------------------------------------------------------- *)
(* Paths (pathlib)                                                         *)
(* ---------------------------------------------------------------------- *)
\* a path is file_path.parts: a sequence of components, the last the name
Name(file_path) == file_path[Len(file_path)]

\* position of the last "." of a name (0 when there is none)
LastDot(name) ==
    IF \E k \in 1..Len(name) : name[k] = "."
    THEN CHOOSE k \in 1..Len(name) :
            name[k] = "." /\ \A m \in (k + 1)..Len(name) : name[m] # "."
    ELSE 0

\* PurePath.suffix: from the last dot, unless it is first or last in the name
Suffix(file_path) ==
    LET name == Name(file_path)
        p == LastDot(name)
    IN  IF 1 < p /\ p < Len(name) THEN SubSeq(name, p, Len(name)) ELSE <<>>

\* PurePath.stem
Stem(file_path) ==
    LET name == Name(file_path)
        p == LastDot(name)
    IN  IF 1 < p /\ p < Len(name) THEN SubSeq(name, 1, p - 1) ELSE name

\* str.split(sep)
RECURSIVE split(_, _)
split(s, sep) ==
    LET p == Find(s, sep)
    IN  IF p = 0 THEN <<s>>
        ELSE <<Slice(s, 1, p - 1)>> \o split(Slice(s, p + Len(sep), Len(s)), sep)

Range(f) == {f[k] : k \in DOMAIN f}

\* first position q >= p of s whose character is not in chars
SkipWhile(s, p, chars) ==
    CHOOSE q \in p..(Len(s) + 1) :
        /\ \A m \in p..(q - 1) : s[m] \in chars
        /\ (q <= Len(s) => s[q] \notin chars)

\* re.sub(r'^\d+\.?\s*[-.]?\s*', '', stem): the leading track number
StripTrackPrefix(s) ==
    LET d == SkipWhile(s, 1, Digits)
        a == IF d <= Len(s) /\ s[d] = "." THEN d + 1 ELSE d
        b == SkipWhile(s, a, Whitespace)
        c == IF b <= Len(s) /\ s[b] \in {"-", "."} THEN b + 1 ELSE b
        e == SkipWhile(s, c, Whitespace)
    IN  IF d = 1 THEN s ELSE Slice(s, e, Len(s))

(* ---------------------------------------------------------------------- *)
(* Literals of the source                                                  *)
(* ---------------------------------------------------------------------- *)
ManualSortNeeded ==
    <<"M","a","n","u","a","l"," ","S","o","r","t"," ","N","e","e","d","e","d">>
Singles == <<"S","i","n","g","l","e","s">>
Music == <<"M","u","s","i","c">>
Part == <<"P","a","r","t">>
Misc == <<"m","i","s","c">>

\* the fixed additions to skip_folders in parse_from_path
BuiltinSkipFolders ==
    { <<"m","p","3","s">>,
      <<"n","e","w"," ","m","p","3","s">>,
      <<"A","m","a","z","o","n"," ","M","P","3">>,
      <<"G","o","o","g","l","e"," ","M","u","s","i","c"," ",
        "D","o","w","n","l","o","a","d","s">>,
      <<"C","o","n","v","e","r","t","e","d"," ","M","u","s","i","c">>,
      Misc,
      <<"V","a","r","i","o","u","s">>,
      <<"U","n","k","n","o","w","n"," ","A","r","t","i","s","t">> }

\* common_words of parse_filename_only
common_words ==
    { <<"t","h","e">>, <<"a">>, <<"a","n">>, <<"a","n","d">>, <<"o","r">>,
      <<"b","u","t">>, <<"i","n">>, <<"o","n">>, <<"a","t">>, <<"t","o">>,
      <<"f","o","r">>, <<"o","f">>, <<"w","i","t","h">>, <<"b","y">>,
      <<"t","h","e","y">>, <<"t","h","e","s","e">>, <<"t","h","i","s">>,
      <<"t","h","a","t">>, <<"i">>, <<"y","o","u">>, <<"w","e">>,
      <<"m","y">>, <<"y","o","u","r">>, <<"h","i","s">>, <<"h","e","r">> }

\* Python truthiness of an optional string
Truthy(x) == x # NoneVal /\ x # <<>>

Resolved(artist, album, track, genre, year) ==
    [artist |-> artist, album |-> album, track |-> track,
     genre |-> genre, year |-> year]

(* ---------------------------------------------------------------------- *)
(* Metadata resolver                                                       *)
(* ---------------------------------------------------------------------- *)
parse_filename_only_any_artist(file_path) ==
    LET filename == Stem(file_path)
        clean_filename == StripTrackPrefix(filename)
        sep == <<" ", "-", " ">>
        p == Find(clean_filename, sep)
        potential_artist == strip(Slice(clean_filename, 1, p - 1), Whitespace)
        potential_track ==
            strip(Slice(clean_filename, p + 3, Len(clean_filename)), Whitespace)
    IN  IF /\ Contains(clean_filename, sep)
           /\ Len(potential_artist) >= 2
           /\ Len(potential_track) >= 2
        THEN Resolved(clean_name(potential_artist), Singles,
                      clean_name(potential_track), NoneVal, NoneVal)
        ELSE Resolved(ManualSortNeeded, <<>>, clean_name(filename),
                      NoneVal, NoneVal)

\* AdvancedMusicOrganizer.parse_filename_only
parse_filename_only(file_path) ==
    LET filename == Stem(file_path)
        clean_filename == StripTrackPrefix(filename)
        sep == <<" ", "-", " ">>
        p == Find(clean_filename, sep)
        potential_artist == strip(Slice(clean_filename, 1, p - 1), Whitespace)
        potential_track ==
            strip(Slice(clean_filename, p + 3, Len(clean_filename)), Whitespace)
    IN  IF /\ Contains(clean_filename, sep)
           /\ Len(potential_artist) >= 2
           /\ Len(potential_track) >= 2
           /\ lower(potential_artist) \notin common_words
           /\ ~isdigit(potential_artist)
        THEN Resolved(clean_name(potential_artist), Singles,
                      clean_name(potential_track), NoneVal, NoneVal)
        ELSE Resolved(ManualSortNeeded, <<>>, clean_name(filename),
                      NoneVal, NoneVal)

\* index of the first component equal to 'Music' (0 when absent)
music_index(path_parts) ==
    IF \E k \in 1..Len(path_parts) : path_parts[k] = Music
    THEN CHOOSE k \in 1..Len(path_parts) :
            path_parts[k] = Music /\ \A m \in 1..(k - 1) : path_parts[m] # Music
    ELSE 0

\* skip_folders of parse_from_path: the configured list and the fixed one
skip_folders(skip_cfg) == Range(split(skip_cfg, <<",", " ">>)) \cup BuiltinSkipFolders

\* AdvancedMusicOrganizer.parse_from_path
parse_from_path(file_path, skip_cfg) ==
    LET mi == music_index(file_path)
        between == Slice(file_path, mi + 1, Len(file_path) - 1)
        dirs_after_music ==
            SelectSeq(between,
                      LAMBDA d : d \notin skip_folders(skip_cfg) /\ ~startswith(d, Part))
    IN  IF mi = 0 THEN parse_filename_only(file_path)
        ELSE IF Len(dirs_after_music) >= 1
        THEN Resolved(clean_name(dirs_after_music[1]),
                      clean_name(IF Len(dirs_after_music) >= 2
                                 THEN dirs_after_music[2] ELSE Singles),
                      clean_name(StripTrackPrefix(Stem(file_path))),
                      NoneVal, NoneVal)
        ELSE parse_filename_only(file_path)

\* the condition of the tag tier: meta_artist and len(meta_artist.strip()) > 1
UsesTags(metadata) ==
    Truthy(metadata.artist) /\ Len(strip(metadata.artist, Whitespace)) > 1

\* parse_metadata trying the directory structure before the tags
parse_metadata_path_first(file_path, metadata, skip_cfg) ==
    IF parse_from_path(file_path, skip_cfg) # parse_filename_only(file_path)
       \/ ~UsesTags(metadata)
    THEN parse_from_path(file_path, skip_cfg)
    ELSE Resolved(clean_name(metadata.artist),
                  IF Truthy(metadata.album) THEN clean_name(metadata.album)
                  ELSE Singles,
                  IF Truthy(metadata.title) THEN clean_name(metadata.title)
                  ELSE clean_name(Stem(file_path)),
                  metadata.genre, metadata.year)

\* AdvancedMusicOrganizer.parse_metadata: the value it returns
parse_metadata(file_path, metadata, skip_cfg) ==
    IF UsesTags(metadata)
    THEN Resolved(clean_name(metadata.artist),
                  IF Truthy(metadata.album) THEN clean_name(metadata.album)
                  ELSE Singles,
                  IF Truthy(metadata.title) THEN clean_name(metadata.title)
                  ELSE clean_name(Stem(file_path)),
                  metadata.genre, metadata.year)
    ELSE parse_from_path(file_path, skip_cfg)

(* ---------------------------------------------------------------------- *)
(* The source tree and the configurations the runs are drawn from          *)
(* ---------------------------------------------------------------------- *)
Root == <<"/">>
Lib == <<"l","i","b">>
Queen == <<"Q","u","e","e","n">>
Opera == <<"O","p","e","r","a">>
Song == <<"S","o","n","g">>
Rock == <<"R","o","c","k">>
Year1975 == <<"1","9","7","5">>
Trash == <<".","T","r","a","s","h">>
SongMp3 == <<"s","o","n","g",".","m","p","3">>
Song1Mp3 == <<"s","o","n","g","_","1",".","m","p","3">>
BadMp3 == <<"b","a","d",".","m","p","3">>
XMp3 == <<"x",".","m","p","3">>
NotesTxt == <<"n","o","t","e","s",".","t","x","t">>
FolderJpg == <<"f","o","l","d","e","r",".","j","p","g">>
PlaylistsDir == <<"P","l","a","y","l","i","s","t","s">>
ReportsDir == <<"R","e","p","o","r","t","s">>
DefaultSkipFolders == <<".","T","r","a","s","h",",", " ", "t","m","p">>

\* what read_metadata returns for a file without readable tags
\* (bitrate None is written 0: analyze_quality only tests its truth value)
NoTags == [artist |-> NoneVal, album |-> NoneVal, title |-> NoneVal,
           genre |-> NoneVal, year |-> NoneVal, bitrate |-> 0]

\* tags with an artist of one character and a title: the two files of equal
\* content carry them; such an artist tag is not used for the placement
\* (line 265) but check_near_duplicates reads it (line 250)
InitialTags == [artist |-> <<"Q">>, album |-> NoneVal, title |-> Song,
                genre |-> NoneVal, year |-> NoneVal, bitrate |-> 0]

\* files that may lie below music_path (/lib): path, content, whether the
\* content can be read, the tuple read_metadata returns, and whether an
\* album-art tag is present
SourceTree ==
    { [path |-> <<Root, Lib, Music, Queen, Opera, SongMp3>>, content |-> "c1", readable |-> TRUE,
       tags |-> InitialTags, art |-> FALSE],
      [path |-> <<Root, Lib, SongMp3>>, content |-> "c2", readable |-> TRUE,
       tags |-> [artist |-> Queen, album |-> Opera, title |-> Song,
                 genre |-> Rock, year |-> Year1975, bitrate |-> 320],
       art |-> TRUE],
      [path |-> <<Root, Lib, Music, Misc, SongMp3>>, content |-> "c1", readable |-> TRUE,
       tags |-> InitialTags, art |-> FALSE],
      [path |-> <<Root, Lib, BadMp3>>, content |-> "c6", readable |-> FALSE,
       tags |-> NoTags, art |-> FALSE],
      [path |-> <<Root, Lib, XMp3>>, content |-> "c3", readable |-> TRUE,
       tags |-> [artist |-> Queen, album |-> NoneVal, title |-> Song,
                 genre |-> Rock, year |-> NoneVal, bitrate |-> 96],
       art |-> FALSE],
      [path |-> <<Root, Lib, NotesTxt>>, content |-> "c4", readable |-> TRUE,
       tags |-> NoTags, art |-> FALSE],
      [path |-> <<Root, Lib, Trash, SongMp3>>, content |-> "c5", readable |-> TRUE,
       tags |-> NoTags, art |-> FALSE] }

FileAt(path) == CHOOSE f \in SourceTree : f.path = path

\* the defaults of load_config (skip_folders shortened to two entries)
DefaultConfig ==
    [interactive_mode |-> FALSE, create_playlists |-> TRUE,
     extract_album_art |-> TRUE, analyze_quality |-> TRUE,
     find_near_duplicates |-> TRUE, skip_folders |-> DefaultSkipFolders,
     manual_sort_folder |-> ManualSortNeeded, create_by_genre |-> TRUE,
     create_by_year |-> TRUE, create_by_artist |-> FALSE,
     min_songs_for_playlist |-> 5]

\* the configurations a run may be started with
Configs ==
    { [DefaultConfig EXCEPT !.interactive_mode = b,
                            !.min_songs_for_playlist = m] :
          b \in BOOLEAN, m \in 1..MaxMinSongs }
    \cup { [DefaultConfig EXCEPT !.find_near_duplicates = FALSE,
                                 !.min_songs_for_playlist = 1],
           [DefaultConfig EXCEPT !.create_playlists = FALSE],
           [DefaultConfig EXCEPT !.create_by_artist = TRUE,
                                 !.analyze_quality = FALSE,
                                 !.extract_album_art = FALSE,
                                 !.min_songs_for_playlist = 1] }

EmptyMap == [x \in {} |-> NoneVal]

\* what Music_Organized holds before the run: nothing, or files of a prior run
PriorTrees ==
    { [files |-> EmptyMap, dirs |-> {}],
      [files |-> [p \in {<<Queen, Opera, SongMp3>>} |-> "prior"],
       dirs |-> {<<>>, <<Queen>>, <<Queen, Opera>>}],
      [files |-> [p \in {<<Queen, Opera, Song1Mp3>>} |-> "prior"],
       dirs |-> {<<>>, <<Queen>>, <<Queen, Opera>>}] }

\* self.stats of __init__
InitialStats ==
    [total_files |-> 0, organized |-> 0, duplicates_removed |-> 0,
     near_duplicates_found |-> 0, folders_created |-> 0, manual_sort |-> 0,
     metadata_parsed |-> 0, album_art_extracted |-> 0, errors |-> <<>>]

\* the fields __init__ sets, before any method runs
Constructed ==
    /\ all_files = <<>>
    /\ i = 1
    /\ duplicates = EmptyMap
    /\ near_duplicates = EmptyMap
    /\ quality_stats = EmptyMap
    /\ stats = InitialStats
    /\ organized_files = <<>>
    /\ g = 1
    /\ j = 0
    /\ playlists = <<>>
    /\ reports = {}
    /\ summary = <<>>

(* ---------------------------------------------------------------------- *)
(* organize(): helpers                                                     *)
(* ---------------------------------------------------------------------- *)
music_extensions ==
    { <<".","m","p","3">>, <<".","m","4","a">>, <<".","f","l","a","c">>,
      <<".","w","a","v">>, <<".","a","a","c">>, <<".","o","g","g">>,
      <<".","w","m","a">> }

\* str(file_path) of an absolute path
RECURSIVE JoinFrom(_, _)
JoinFrom(parts, k) ==
    IF k > Len(parts) THEN <<>>
    ELSE (IF k > 2 THEN <<"/">> ELSE <<>>) \o parts[k] \o JoinFrom(parts, k + 1)
PathStr(parts) == parts[1] \o JoinFrom(parts, 2)

\* the files get_all_music_files keeps
IsMusicFile(f, cfg) ==
    /\ ~\E skip \in Range(split(cfg.skip_folders, <<",", " ">>)) :
            Contains(PathStr(f.path), skip)
    /\ lower(Suffix(f.path)) \in music_extensions

Injective(q) == \A a, b \in 1..Len(q) : a # b => q[a] # q[b]

\* get_all_music_files: the music files of the tree, in the order rglob
\* yields them; the tree holds at most MaxFiles of the files of SourceTree
get_all_music_files(cfg) ==
    {q \in SeqsUpTo({f \in SourceTree : IsMusicFile(f, cfg)}, MaxFiles) :
        Injective(q)}

\* get_file_hash: the digest of the content, None when reading fails
get_file_hash_empty_digest(f) ==
    <<"md5", IF f.readable THEN f.content ELSE "">>
get_file_hash(f) == IF f.readable THEN <<"md5", f.content>> ELSE NoneVal

Extend(m, k, v) == [x \in DOMAIN m \cup {k} |-> IF x = k THEN v ELSE m[x]]
Increment(m, k) == Extend(m, k, IF k \in DOMAIN m THEN m[k] + 1 ELSE 1)

\* analyze_quality: self.quality_stats afterwards
analyze_quality(qs, f, cfg) ==
    LET counted == Increment(qs, <<"format_", lower(Suffix(f.path))>>)
        bitrate == f.tags.bitrate
    IN  IF ~cfg.analyze_quality THEN qs
        ELSE IF bitrate = 0 THEN counted
        ELSE IF bitrate < 128 THEN Increment(counted, <<"low_quality", <<>>>>)
        ELSE IF bitrate >= 320 THEN Increment(counted, <<"high_quality", <<>>>>)
        ELSE Increment(counted, <<"medium_quality", <<>>>>)

\* check_near_duplicates: self.near_duplicates afterwards
check_near_duplicates_case_sensitive(nd, f, cfg) ==
    LET artist == f.tags.artist
        title == f.tags.title
        key == artist \o <<"_">> \o title
    IN  IF cfg.find_near_duplicates /\ Truthy(artist) /\ Truthy(title)
        THEN Extend(nd, key, (IF key \in DOMAIN nd THEN nd[key] ELSE <<>>)
                             \o <<f.path>>)
        ELSE nd
check_near_duplicates(nd, f, cfg) ==
    LET artist == f.tags.artist
        title == f.tags.title
        key == lower(artist) \o <<"_">> \o lower(title)
    IN  IF cfg.find_near_duplicates /\ Truthy(artist) /\ Truthy(title)
        THEN Extend(nd, key, (IF key \in DOMAIN nd THEN nd[key] ELSE <<>>)
                             \o <<f.path>>)
        ELSE nd

\* the groups after the scan of one file: parse_metadata, and with it
\* check_near_duplicates (line 262), is reached only past the two `continue`
\* of lines 490 and 494, that is for a file that is kept
near_duplicates_before_dedup(nd, f, cfg, kept) == check_near_duplicates(nd, f, cfg)
near_duplicates_after(nd, f, cfg, kept) ==
    IF kept THEN check_near_duplicates(nd, f, cfg) ELSE nd

\* a test that never finds the hash in the index
is_duplicate_never(dups, file_hash) == FALSE

\* line 492: file_hash in self.duplicates
is_duplicate(dups, file_hash) == file_hash \in DOMAIN dups

\* counting the duplicate and the file it duplicates
count_duplicate_twice(st) == [st EXCEPT !.duplicates_removed = @ + 2]

\* line 493
count_duplicate(st) == [st EXCEPT !.duplicates_removed = @ + 1]

\* a directory and all its parents (mkdir(parents=True))
WithParents(d) == {SubSeq(d, 1, k) : k \in 0..Len(d)}

\* Path.exists() below organized_path
Exists(path) == path \in DOMAIN fs \/ path \in dirs

\* lines 501-506: the plan key organize() files an entry under
plan_key(artist, album) ==
    IF artist = ManualSortNeeded THEN ManualSortNeeded \o <<"/">>
    ELSE artist \o <<"/">> \o album

\* a target directory that is always the artist/album tree
target_dir_of_artist_tree(artist, album, cfg) == <<artist, album>>

\* lines 501-507: the target directory of an entry

target_dir_of(artist, album, cfg) ==
    IF artist = ManualSortNeeded THEN <<cfg.manual_sort_folder>>
    ELSE <<artist, album>>

\* organized_files[key].append(file_info), keys kept in insertion order
AppendToPlan_overwrite(plan, key, file_info) ==
    IF \E k \in 1..Len(plan) : plan[k].key = key
    THEN [k \in 1..Len(plan) |->
            IF plan[k].key = key
            THEN [plan[k] EXCEPT !.files = <<file_info>>]
            ELSE plan[k]]
    ELSE Append(plan, [key |-> key, files |-> <<file_info>>])
AppendToPlan(plan, key, file_info) ==
    IF \E k \in 1..Len(plan) : plan[k].key = key
    THEN [k \in 1..Len(plan) |->
            IF plan[k].key = key
            THEN [plan[k] EXCEPT !.files = Append(@, file_info)]
            ELSE plan[k]]
    ELSE Append(plan, [key |-> key, files |-> <<file_info>>])

(* ---------------------------------------------------------------------- *)
(* organize(): the run                                                     *)
(* ---------------------------------------------------------------------- *)
Init ==
    /\ Constructed
    /\ config \in Configs
    /\ \E prior \in PriorTrees : fs = prior.files /\ dirs = prior.dirs
    /\ pc = "start"
    /\ arg = NoneVal
    /\ ret = NoneVal

\* lines 469-479: the two mkdir calls and the enumeration
Start ==
    /\ pc = "start"
    /\ dirs' = dirs \cup {<<>>, <<config.manual_sort_folder>>}
    /\ all_files' \in get_all_music_files(config)
    /\ pc' = "scan"
    /\ UNCHANGED <<config, i, duplicates, near_duplicates, quality_stats,
                   stats, organized_files, g, j, fs, playlists, reports,
                   summary, arg, ret>>

\* what extract_album_art may do for a file resolved from its tags
ArtOutcomes == {"written", "mkdir_failed", "write_failed", "write_failed_empty"}

\* file_info as line 509 builds it ('target_path' is not set yet)
FileInfo(f, meta, cfg) ==
    [original_path |-> f.path, artist |-> meta.artist, album |-> meta.album,
     track |-> meta.track, genre |-> meta.genre, year |-> meta.year,
     filename |-> Name(f.path),
     target_dir |-> target_dir_of(meta.artist, meta.album, cfg),
     target_path |-> NoneVal]

\* self.stats after the iteration of one file
ScanStats(st, file_hash, kept, tagged, sentinel, art_written) ==
    IF file_hash = NoneVal THEN [st EXCEPT !.total_files = @ + 1]
    ELSE IF ~kept THEN count_duplicate([st EXCEPT !.total_files = @ + 1])
    ELSE [st EXCEPT
            !.total_files = @ + 1,
            !.metadata_parsed = IF tagged THEN @ + 1 ELSE @,
            !.album_art_extracted = IF art_written THEN @ + 1 ELSE @,
            !.manual_sort = IF sentinel THEN @ + 1 ELSE @]

\* one iteration of the scan loop (lines 481-518), parse_metadata and the
\* methods it calls included
ScanFile ==
    /\ pc = "scan"
    /\ i <= Len(all_files)
    /\ \E f \in {all_files[i]} :
       \E file_hash \in {get_file_hash(f)} :
       \E kept \in {file_hash # NoneVal /\ ~is_duplicate(duplicates, file_hash)} :
       \E meta \in {parse_metadata(f.path, f.tags, config.skip_folders)} :
       \E tagged \in {UsesTags(f.tags)} :
       \E tries_art \in {kept /\ tagged /\ config.extract_album_art /\ f.art} :
       \E art_file \in {<<meta.artist, meta.album, FolderJpg>>} :
       \E art \in ArtOutcomes :
       \E art_written \in {tries_art /\ art = "written" /\ ~Exists(art_file)} :
           /\ (~tries_art => art = "written")
           /\ i' = i + 1
           /\ stats' = ScanStats(stats, file_hash, kept, tagged,
                                 meta.artist = ManualSortNeeded, art_written)
           /\ duplicates' =
                IF kept THEN Extend(duplicates, file_hash, f.path)
                ELSE duplicates
           /\ quality_stats' =
                IF kept THEN analyze_quality(quality_stats, f, config)
                ELSE quality_stats
           /\ near_duplicates' =
                near_duplicates_after(near_duplicates, f, config, kept)
           /\ dirs' = IF tries_art /\ art # "mkdir_failed"
                      THEN dirs \cup WithParents(<<meta.artist, meta.album>>)
                      ELSE dirs
           /\ fs' = IF art_written THEN Extend(fs, art_file, "art")
                    ELSE IF tries_art /\ art = "write_failed_empty"
                            /\ ~Exists(art_file)
                    THEN Extend(fs, art_file, "empty")
                    ELSE fs
           /\ organized_files' =
                IF kept
                THEN AppendToPlan(organized_files,
                                  plan_key(meta.artist, meta.album),
                                  FileInfo(f, meta, config))
                ELSE organized_files
    /\ UNCHANGED <<pc, config, all_files, g, j, playlists, reports, summary,
                   arg, ret>>

\* interactive_preview and the branch on its result (lines 520-523)
Preview ==
    /\ pc = "scan"
    /\ i > Len(all_files)
    /\ \E response \in {"y", "n"} :
          LET proceed == ~config.interactive_mode \/ response = "y"
          IN  pc' = IF ~proceed THEN "cancelled"
                    ELSE IF Len(organized_files) = 0 THEN "playlists"
                    ELSE "copy"
    /\ UNCHANGED <<config, all_files, i, duplicates, near_duplicates,
                   quality_stats, stats, organized_files, g, j, fs, dirs,
                   playlists, reports, summary, arg, ret>>

\* str(counter)
DigitChars == <<"0", "1", "2", "3", "4", "5", "6", "7", "8", "9">>
RECURSIVE ToStr(_)
ToStr(n) ==
    IF n < 10 THEN <<DigitChars[n + 1]>>
    ELSE ToStr(n \div 10) \o <<DigitChars[(n % 10) + 1]>>

\* the conflict loop (lines 539-544) from a given counter on
RECURSIVE NextFree(_, _, _, _)
NextFree(target_dir, stem, suffix, counter) ==
    LET target_file == target_dir \o <<stem \o <<"_">> \o ToStr(counter) \o suffix>>
    IN  IF Exists(target_file)
        THEN NextFree(target_dir, stem, suffix, counter + 1)
        ELSE target_file

\* the conflict loop taking the first candidate without looking
target_file_unchecked(target_dir, file_info) == target_dir \o <<file_info.filename>>

\* lines 536-544: the path the file is copied to
target_file_for(target_dir, file_info) ==
    IF Exists(target_dir \o <<file_info.filename>>)
    THEN NextFree(target_dir, Stem(file_info.original_path),
                  Suffix(file_info.original_path), 1)
    ELSE target_dir \o <<file_info.filename>>

\* f"Error organizing {artist_album}: {str(e)}"
ErrorMsg(artist_album, e) == [group |-> artist_album, exception |-> e]

\* an except clause that swallows the exception
record_error_dropped(errors, artist_album, e) == errors

\* lines 551-552: self.stats['errors'].append(error_msg)
record_error(errors, artist_album, e) == Append(errors, ErrorMsg(artist_album, e))

\* where the copy loop goes once group g is finished or abandoned
AfterGroup == IF g + 1 > Len(organized_files) THEN "playlists" ELSE "copy"

\* an except clause that gives the batch up
AfterFailedGroup_abort == "playlists"

\* lines 550-552: the except clause leaves the group, the loop goes on
AfterFailedGroup == AfterGroup

\* lines 527-533: the head of one iteration of the copy loop
BeginGroup ==
    /\ pc = "copy"
    /\ j = 0
    /\ \E group \in {organized_files[g]} :
       \E target_dir \in {group.files[1].target_dir} :
       \E outcome \in {"ok", "failed", "failed_after_parent"} :
           IF outcome = "ok"
           THEN /\ dirs' = dirs \cup WithParents(target_dir)
                /\ stats' = [stats EXCEPT !.folders_created =
                                IF group.key # ManualSortNeeded \o <<"/">>
                                THEN @ + 1 ELSE @]
                /\ j' = 1
                /\ UNCHANGED <<g, pc>>
           ELSE /\ dirs' = IF outcome = "failed_after_parent"
                           THEN dirs \cup WithParents(SubSeq(target_dir, 1,
                                                      Len(target_dir) - 1))
                           ELSE dirs
                /\ stats' = [stats EXCEPT !.errors =
                                record_error(@, group.key, "mkdir")]
                /\ g' = g + 1
                /\ pc' = AfterFailedGroup
                /\ UNCHANGED j
    /\ UNCHANGED <<config, all_files, i, duplicates, near_duplicates,
                   quality_stats, organized_files, fs, playlists, reports,
                   summary, arg, ret>>

\* lines 535-548: one iteration of the inner loop, and the except clause
CopyFile ==
    /\ pc = "copy"
    /\ j >= 1
    /\ \E group \in {organized_files[g]} :
       \E file_info \in {group.files[j]} :
       \E target_file \in {target_file_for(group.files[1].target_dir, file_info)} :
       \E last \in {j = Len(group.files)} :
       \E outcome \in {"ok", "failed", "failed_partial"} :
           IF outcome = "ok"
           THEN /\ fs' = Extend(fs, target_file,
                                FileAt(file_info.original_path).content)
                /\ organized_files' =
                     [organized_files EXCEPT
                        ![g].files[j].target_path = target_file]
                /\ stats' = [stats EXCEPT !.organized = @ + 1]
                /\ j' = IF last THEN 0 ELSE j + 1
                /\ g' = IF last THEN g + 1 ELSE g
                /\ pc' = IF last THEN AfterGroup ELSE "copy"
           ELSE /\ fs' = IF outcome = "failed_partial"
                         THEN Extend(fs, target_file, "partial") ELSE fs
                /\ stats' = [stats EXCEPT !.errors =
                                record_error(@, group.key, "copy")]
                /\ j' = 0
                /\ g' = g + 1
                /\ pc' = AfterFailedGroup
                /\ UNCHANGED organized_files
    /\ UNCHANGED <<config, all_files, i, duplicates, near_duplicates,
                   quality_stats, dirs, playlists, reports, summary, arg, ret>>

\* all file_info of the plan, in the order create_playlists visits them
RECURSIVE PlanInfosFrom(_, _)
PlanInfosFrom(plan, k) ==
    IF k > Len(plan) THEN <<>> ELSE plan[k].files \o PlanInfosFrom(plan, k + 1)
PlanInfos(plan) == PlanInfosFrom(plan, 1)

\* by_genre, by_year, by_artist (lines 342-348): the infos grouped by one
\* field, keys in insertion order; genre and year only when truthy
RECURSIVE GroupByFrom(_, _, _, _)
GroupByFrom(infos, field, k, acc) ==
    IF k > Len(infos) THEN acc
    ELSE GroupByFrom(infos, field, k + 1,
                     IF field = "artist" \/ Truthy(infos[k][field])
                     THEN AppendToPlan(acc, infos[k][field], infos[k])
                     ELSE acc)
GroupBy(infos, field) == GroupByFrom(infos, field, 1, <<>>)

WithType(groups, type) ==
    [k \in 1..Len(groups) |->
        [type |-> type, key |-> groups[k].key, files |-> groups[k].files]]

\* the playlists create_playlists writes, in order (lines 351-362)
PlaylistJobs(plan, cfg) ==
    LET infos == PlanInfos(plan)
        all == (IF cfg.create_by_genre
                THEN WithType(GroupBy(infos, "genre"), <<"g","e","n","r","e">>)
                ELSE <<>>)
               \o (IF cfg.create_by_year
                   THEN WithType(GroupBy(infos, "year"), <<"y","e","a","r">>)
                   ELSE <<>>)
               \o (IF cfg.create_by_artist
                   THEN WithType(GroupBy(infos, "artist"),
                                 <<"a","r","t","i","s","t">>)
                   ELSE <<>>)
    IN  SelectSeq(all, LAMBDA job : Len(job.files) >= cfg.min_songs_for_playlist)

PlaylistName(job) ==
    job.type \o <<"_">> \o clean_name(job.key) \o <<".","m","3","u">>

\* lines 363-368 for the jobs from k on: the files written, and whether
\* file_info['target_path'] raised KeyError
RECURSIVE WritePlaylistsFrom(_, _, _)
WritePlaylistsFrom(jobs, k, written) ==
    IF k > Len(jobs) THEN [written |-> written, raised |-> FALSE]
    ELSE LET job == jobs[k]
             missing == {m \in 1..Len(job.files) :
                            job.files[m].target_path = NoneVal}
             stop == IF missing = {} THEN Len(job.files) + 1
                     ELSE CHOOSE m \in missing : \A n \in missing : m <= n
             lines == [m \in 1..(stop - 1) |->
                          <<<<".", ".">>>> \o job.files[m].target_path]
             file == [name |-> PlaylistName(job), lines |-> lines]
         IN  IF missing = {}
             THEN WritePlaylistsFrom(jobs, k + 1, Append(written, file))
             ELSE [written |-> Append(written, file), raised |-> TRUE]

\* create_playlists reading target_path with .get(): no KeyError
WritePlaylists_tolerant(jobs) ==
    [written |-> [k \in 1..Len(jobs) |->
                    [name |-> PlaylistName(jobs[k]),
                     lines |-> [m \in 1..Len(jobs[k].files) |->
                                  <<<<".", ".">>>> \o jobs[k].files[m].target_path]]],
     raised |-> FALSE]

WritePlaylists(jobs) == WritePlaylistsFrom(jobs, 1, <<>>)

\* create_playlists as organize() calls it (line 556)
CreatePlaylists ==
    /\ pc = "playlists"
    /\ IF ~config.create_playlists
       THEN /\ pc' = "reports"
            /\ UNCHANGED <<dirs, playlists>>
       ELSE \E result \in {WritePlaylists(PlaylistJobs(organized_files, config))} :
                /\ dirs' = dirs \cup {<<PlaylistsDir>>}
                /\ playlists' = result.written
                /\ pc' = IF result.raised THEN "raised" ELSE "reports"
    /\ UNCHANGED <<config, all_files, i, duplicates, near_duplicates,
                   quality_stats, stats, organized_files, g, j, fs, reports,
                   summary, arg, ret>>

\* sum of len(files) - 1 over the groups with more than one file
RECURSIVE Surplus(_, _)
Surplus(nd, keys) ==
    IF keys = {} THEN 0
    ELSE LET key == CHOOSE x \in keys : TRUE
         IN  (IF Len(nd[key]) > 1 THEN Len(nd[key]) - 1 ELSE 0)
             + Surplus(nd, keys \ {key})

\* generate_reports as organize() calls it (line 559)
GenerateReports ==
    /\ pc = "reports"
    /\ dirs' = dirs \cup {<<ReportsDir>>}
    /\ reports' = (IF config.analyze_quality THEN {"quality_report.txt"} ELSE {})
                  \cup (IF config.find_near_duplicates
                        THEN {"near_duplicates.txt"} ELSE {})
                  \cup {"organization_summary.txt"}
    /\ stats' = [stats EXCEPT !.near_duplicates_found =
                    IF config.find_near_duplicates
                    THEN @ + Surplus(near_duplicates, DOMAIN near_duplicates)
                    ELSE @]
    /\ pc' = "summary"
    /\ UNCHANGED <<config, all_files, i, duplicates, near_duplicates,
                   quality_stats, organized_files, g, j, fs, playlists,
                   summary, arg, ret>>

\* lines 561-573: the final summary: every counter, and the number of errors
PrintSummary ==
    /\ pc = "summary"
    /\ summary' = <<[counters |-> [stats EXCEPT !.errors = <<>>],
                     errors |-> Len(stats.errors)]>>
    /\ pc' = "done"
    /\ UNCHANGED <<config, all_files, i, duplicates, near_duplicates,
                   quality_stats, stats, organized_files, g, j, fs, dirs,
                   playlists, reports, arg, ret>>

Next ==
    \/ Start
    \/ ScanFile
    \/ Preview
    \/ BeginGroup
    \/ CopyFile
    \/ CreatePlaylists
    \/ GenerateReports
    \/ PrintSummary

Spec == Init /\ [][Next]_vars

(* ---------------------------------------------------------------------- *)
(* clean_name and parse_metadata called on their own                       *)
(* ---------------------------------------------------------------------- *)
CleanAlphabet == {"a", " ", ".", "/", "\t"}
CleanInputs == SeqsUpTo(CleanAlphabet, MaxLen) \cup {NoneVal}

InitClean ==
    /\ Constructed
    /\ config = DefaultConfig
    /\ fs = EmptyMap /\ dirs = {}
    /\ pc = "clean_name"
    /\ arg \in CleanInputs
    /\ ret = NoneVal

CallCleanName ==
    /\ pc = "clean_name"
    /\ ret' = clean_name(arg)
    /\ pc' = "clean_name_done"
    /\ UNCHANGED <<config, all_files, i, duplicates, near_duplicates,
                   quality_stats, stats, organized_files, g, j, fs, dirs,
                   playlists, reports, summary, arg>>

NextClean == CallCleanName
SpecClean == InitClean /\ [][NextClean]_vars

\* directory names and file names the resolver is tried on
Part1 == <<"P","a","r","t","1">>
Tmp == <<"t","m","p">>
ResolveDirNames == {Music, Misc, Part1, Queen, Tmp}
ResolveFileNames ==
    { <<"a","b"," ","-"," ","c","d",".","m","p","3">>,
      <<"T","h","e"," ","-"," ","c","d",".","m","p","3">>,
      <<"0","1"," ","-"," ","a","b",".","m","p","3">>,
      <<"1","."," ","2","2"," ","-"," ","c","d",".","m","p","3">>,
      <<"a"," ","-"," ","b","c",".","m","p","3">>,
      <<"a","b"," ","-"," ","c",".","m","p","3">>,
      <<"0","1",".","m","p","3">>,
      <<"t",".","m","p","3">> }
ResolvePaths ==
    { <<Root>> \o d \o <<n>> :
          d \in SeqsUpTo(ResolveDirNames, MaxDirs), n \in ResolveFileNames }
ResolveTags ==
    [artist : {NoneVal, <<>>, <<" ","a"," ">>, Queen, <<" ","?","?"," ">>,
               ManualSortNeeded},
     album : {NoneVal, Opera},
     title : {NoneVal, Song},
     genre : {Rock}, year : {Year1975}, bitrate : {320}]

InitResolve ==
    /\ Constructed
    /\ config = DefaultConfig
    /\ fs = EmptyMap /\ dirs = {}
    /\ pc = "parse_metadata"
    /\ arg \in [file_path : ResolvePaths, metadata : ResolveTags,
                skip_folders : {DefaultSkipFolders}]
    /\ ret = NoneVal

CallParseMetadata ==
    /\ pc = "parse_metadata"
    /\ ret' = parse_metadata(arg.file_path, arg.metadata, arg.skip_folders)
    /\ pc' = "parse_metadata_done"
    /\ UNCHANGED <<config, all_files, i, duplicates, near_duplicates,
                   quality_stats, stats, organized_files, g, j, fs, dirs,
                   playlists, reports, summary, arg>>

NextResolve == CallParseMetadata
SpecResolve == InitResolve /\ [][NextResolve]_vars

(* ---------------------------------------------------------------------- *)
(* Properties of the resolver                                              *)
(* ---------------------------------------------------------------------- *)
\* the tiers as the design states them, over the input in arg
TagTierApplies ==
    /\ arg.metadata.artist # NoneVal
    /\ Len(strip(arg.metadata.artist, Whitespace)) > 1

TagTierResult ==
    LET m == arg.metadata
    IN  [artist |-> clean_name(m.artist),
         album |-> IF m.album \in {NoneVal, <<>>} THEN Singles
                   ELSE clean_name(m.album),
         track |-> IF m.title \in {NoneVal, <<>>}
                   THEN clean_name(Stem(arg.file_path))
                   ELSE clean_name(m.title),
         genre |-> m.genre, year |-> m.year]

\* positions of 'Music' components, and the anchor: the first of them
AnchorPositions == {k \in 1..Len(arg.file_path) : arg.file_path[k] = Music}
Anchor == CHOOSE k \in AnchorPositions : \A m \in AnchorPositions : k <= m

SkipSet == Range(split(arg.skip_folders, <<",", " ">>)) \cup BuiltinSkipFolders

\* positions strictly between anchor and file that survive the filters
Survivors ==
    {k \in (Anchor + 1)..(Len(arg.file_path) - 1) :
        /\ arg.file_path[k] \notin SkipSet
        /\ ~startswith(arg.file_path[k], Part)}

PathTierApplies == AnchorPositions # {} /\ Survivors # {}

PathTierResult ==
    LET first == CHOOSE k \in Survivors : \A m \in Survivors : k <= m
        rest == Survivors \ {first}
        second == CHOOSE k \in rest : \A m \in rest : k <= m
    IN  [artist |-> clean_name(arg.file_path[first]),
         album |-> IF rest = {} THEN Singles
                   ELSE clean_name(arg.file_path[second]),
         track |-> clean_name(StripTrackPrefix(Stem(arg.file_path))),
         genre |-> NoneVal, year |-> NoneVal]

\* the two sides of the first " - " of the prefix-stripped stem
FilenameBody == StripTrackPrefix(Stem(arg.file_path))
FilenameLeft ==
    strip(Slice(FilenameBody, 1, Find(FilenameBody, <<" ","-"," ">>) - 1),
          Whitespace)
FilenameRight ==
    strip(Slice(FilenameBody, Find(FilenameBody, <<" ","-"," ">>) + 3,
                Len(FilenameBody)), Whitespace)

FilenameSplitAccepted ==
    /\ Find(FilenameBody, <<" ","-"," ">>) > 0
    /\ Len(FilenameLeft) >= 2
    /\ Len(FilenameRight) >= 2
    /\ lower(FilenameLeft) \notin common_words
    /\ \E k \in 1..Len(FilenameLeft) : FilenameLeft[k] \notin Digits

FilenameTierResult ==
    [artist |-> clean_name(FilenameLeft), album |-> Singles,
     track |-> clean_name(FilenameRight), genre |-> NoneVal, year |-> NoneVal]

SentinelResult ==
    [artist |-> ManualSortNeeded, album |-> <<>>,
     track |-> clean_name(Stem(arg.file_path)),
     genre |-> NoneVal, year |-> NoneVal]

\* C2: parse_metadata returns the result of the first applicable tier in the
\* order tag, path, filename, sentinel: the tag tier whenever the artist tag
\* trims to more than one character (even below a 'Music' anchor), else the
\* path tier whenever a component that is neither skipped nor starts with
\* 'Part' lies strictly between the anchor and the file, else the filename
\* tier when the " - " split is accepted, else the sentinel.
C2_FirstApplicableTierWins ==
    pc = "parse_metadata_done" =>
        ret = IF TagTierApplies THEN TagTierResult
              ELSE IF PathTierApplies THEN PathTierResult
              ELSE IF FilenameSplitAccepted THEN FilenameTierResult
              ELSE SentinelResult

\* a tagged file below Music/<artist> was resolved from its tags
C2_TagBeatsPath ==
    /\ pc = "parse_metadata_done"
    /\ TagTierApplies
    /\ PathTierApplies
    /\ PathTierResult.artist # TagTierResult.artist
    /\ ret.artist = Queen

\* C3: parse_metadata always returns a non-empty artist and a non-empty
\* track, and an empty album only together with the artist
\* 'Manual Sort Needed' (otherwise the album is non-empty).
C3_ArtistTrackNonEmpty ==
    pc = "parse_metadata_done" =>
        /\ ret.artist # NoneVal /\ Len(ret.artist) > 0
        /\ ret.track # NoneVal /\ Len(ret.track) > 0
        /\ ret.album # NoneVal
        /\ (ret.album = <<>> => ret.artist = ManualSortNeeded)

\* an untagged, unclassifiable file got the sentinel artist and no album
C3_SentinelWithEmptyAlbum ==
    /\ pc = "parse_metadata_done"
    /\ ~TagTierApplies
    /\ ret.artist = ManualSortNeeded
    /\ ret.album = <<>>
    /\ Len(ret.track) > 0

\* C4: whatever string (or None) clean_name is given, its result has no
\* character of < > : " / \ | ? *, no run of two or more whitespace
\* characters, no leading or trailing whitespace, no trailing dot, and is
\* not empty.
C4_CleanNameIsSanitized ==
    pc = "clean_name_done" =>
        /\ \A k \in 1..Len(ret) : ret[k] \notin IllegalChars
        /\ \A k \in 1..(Len(ret) - 1) :
              ~(ret[k] \in Whitespace /\ ret[k + 1] \in Whitespace)
        /\ Len(ret) > 0
        /\ ret[1] \notin Whitespace
        /\ ret[Len(ret)] \notin Whitespace
        /\ ret[Len(ret)] # "."

(* ---------------------------------------------------------------------- *)
(* Properties of organize()                                                *)
(* ---------------------------------------------------------------------- *)
\* positions of all_files the scan loop has been through
Scanned == 1..(i - 1)
HashOf(k) == get_file_hash(all_files[k])
\* first file of its content hash, and files whose hash was seen before
FirstOfHash == {k \in Scanned : HashOf(k) # NoneVal
                                /\ \A m \in 1..(k - 1) : HashOf(m) # HashOf(k)}
LaterOfHash == {k \in Scanned : HashOf(k) # NoneVal
                                /\ \E m \in 1..(k - 1) : HashOf(m) = HashOf(k)}
Unreadable == {k \in Scanned : HashOf(k) = NoneVal}

PlanEntries == PlanInfos(organized_files)
TimesPlanned(path) ==
    Cardinality({k \in 1..Len(PlanEntries) : PlanEntries[k].original_path = path})

\* C1: of the files sharing a content hash only the first-enumerated one is
\* in the duplicate index and in the plan; every later one adds exactly 1 to
\* duplicates_removed, is not in the plan and never replaces the index entry.
C1_FirstSeenWins ==
    /\ \A k \in FirstOfHash :
          /\ HashOf(k) \in DOMAIN duplicates
          /\ duplicates[HashOf(k)] = all_files[k].path
          /\ TimesPlanned(all_files[k].path) = 1
    /\ \A k \in LaterOfHash : TimesPlanned(all_files[k].path) = 0
    /\ stats.duplicates_removed = Cardinality(LaterOfHash)
    /\ DOMAIN duplicates = {HashOf(k) : k \in FirstOfHash}

\* the file below Music/misc came first and its twin was dropped
C1_LaterTwinDropped ==
    /\ LaterOfHash # {}
    /\ stats.duplicates_removed = 1
    /\ duplicates[<<"md5", "c1">>] = <<Root, Lib, Music, Misc, SongMp3>>
    /\ TimesPlanned(<<Root, Lib, Music, Queen, Opera, SongMp3>>) = 0

\* the planned entries that have been copied all have different final paths
DistinctFinalPaths ==
    \A a, b \in 1..Len(PlanEntries) :
        (/\ a # b
         /\ PlanEntries[a].target_path # NoneVal
         /\ PlanEntries[b].target_path # NoneVal)
        => PlanEntries[a].target_path # PlanEntries[b].target_path

\* no step changes or removes a file that exists
NoOverwrite == \A p \in DOMAIN fs : p \in DOMAIN fs' /\ fs'[p] = fs[p]

\* a successful copy goes to the original name if free, else to the
\* '<stem>_<k><ext>' of the smallest k >= 1 that is free
CopiesToFirstFreeName ==
    (pc = "copy" /\ j >= 1 /\ stats'.organized # stats.organized) =>
        LET file_info == organized_files[g].files[j]
            dir == file_info.target_dir
            original == dir \o <<file_info.filename>>
            Numbered(k) ==
                dir \o <<Stem(<<file_info.filename>>) \o <<"_">> \o ToStr(k)
                         \o Suffix(<<file_info.filename>>)>>
            final == organized_files'[g].files[j].target_path
        IN  /\ final \notin DOMAIN fs
            /\ final \notin dirs
            /\ final \in DOMAIN fs'
            /\ IF ~Exists(original) THEN final = original
               ELSE \E k \in 1..(Cardinality(DOMAIN fs) + Cardinality(dirs) + 1) :
                       /\ final = Numbered(k)
                       /\ \A m \in 1..(k - 1) : Exists(Numbered(m))

\* C5: every copy goes to a path that does not exist at copy time, the
\* original name if free and else '<stem>_<k><ext>' for the smallest free
\* k >= 1; no copy overwrites an existing file and the files placed in one
\* run have pairwise distinct final paths.
C5_CollisionSafeCopy ==
    /\ []DistinctFinalPaths
    /\ [][NoOverwrite /\ CopiesToFirstFreeName]_vars

\* with song.mp3 left by a prior run, the two files named song.mp3 of this
\* run were copied as song_1.mp3 and song_2.mp3
C5_SecondAndThirdRenamed ==
    /\ <<Queen, Opera, SongMp3>> \in DOMAIN fs
    /\ fs[<<Queen, Opera, SongMp3>>] = "prior"
    /\ \E a, b \in 1..Len(PlanEntries) :
          /\ PlanEntries[a].target_path = <<Queen, Opera, Song1Mp3>>
          /\ PlanEntries[b].target_path =
                <<Queen, Opera, <<"s","o","n","g","_","2",".","m","p","3">>>>

\* C6: a planned entry whose artist is 'Manual Sort Needed' has the target
\* directory <OrganizedRoot>/<manual_sort_folder> and counts once in
\* manual_sort; every other entry is filed under key '{artist}/{album}' with
\* target directory <OrganizedRoot>/<artist>/<album>.
C6_SentinelRouting ==
    /\ \A k \in 1..Len(organized_files) :
          \A m \in 1..Len(organized_files[k].files) :
              LET e == organized_files[k].files[m]
              IN  IF e.artist = ManualSortNeeded
                  THEN /\ e.target_dir = <<config.manual_sort_folder>>
                       /\ Len(e.target_dir) = 1
                  ELSE /\ organized_files[k].key = e.artist \o <<"/">> \o e.album
                       /\ e.target_dir = <<e.artist, e.album>>
    /\ stats.manual_sort =
          Cardinality({k \in 1..Len(PlanEntries) :
                          PlanEntries[k].artist = ManualSortNeeded})

\* an unclassifiable file was copied into the manual-sort folder, next to a
\* classified one copied below its artist
C6_SentinelFilePlaced ==
    /\ stats.manual_sort = 1
    /\ <<ManualSortNeeded, SongMp3>> \in DOMAIN fs
    /\ \E k \in 1..Len(PlanEntries) :
          /\ PlanEntries[k].artist = Queen
          /\ PlanEntries[k].target_path # NoneVal

\* the positions the run can be in once the copy loop is over
AfterCopy == {"playlists", "reports", "summary", "done", "raised"}

GroupHasError(k) ==
    \E e \in 1..Len(stats.errors) : stats.errors[e].group = organized_files[k].key

GroupPlaced(k) ==
    /\ organized_files[k].files[1].target_dir \in dirs
    /\ \A m \in 1..Len(organized_files[k].files) :
          /\ organized_files[k].files[m].target_path # NoneVal
          /\ organized_files[k].files[m].target_path \in DOMAIN fs

\* a step of the copy loop that gives group g up
GroupFails ==
    /\ pc = "copy"
    /\ g' = g + 1
    /\ \E m \in 1..Len(organized_files[g].files) :
          organized_files'[g].files[m].target_path = NoneVal

\* such a step appends one error naming the group and goes on to the next
FailureIsRecordedAndLoopGoesOn ==
    GroupFails =>
        /\ \E e \in {"mkdir", "copy"} :
              stats'.errors =
                  Append(stats.errors,
                         [group |-> organized_files[g].key, exception |-> e])
        /\ (g < Len(organized_files) => pc' = "copy" /\ j' = 0)

\* C7: when creating the directory or copying a file fails for one group, an
\* error string for that group is appended to stats['errors'] and the batch
\* goes on: every later group of the plan still has its directory created
\* and its files copied (unless it fails itself).
C7_FailedGroupDoesNotAbort ==
    /\ [][FailureIsRecordedAndLoopGoesOn]_vars
    /\ [](pc \in AfterCopy =>
            \A k \in 1..Len(organized_files) : GroupHasError(k) \/ GroupPlaced(k))

\* the first group failed and the second was still placed
C7_LaterGroupPlaced ==
    /\ pc = "playlists"
    /\ Len(organized_files) >= 2
    /\ GroupHasError(1) /\ ~GroupPlaced(1)
    /\ GroupPlaced(2) /\ ~GroupHasError(2)

\* C8: whatever files fail hashing, directory creation or copying, a run
\* whose plan is committed goes through playlist and report generation to
\* the final summary without raising.
C8_CommittedRunNeverRaises == pc # "raised"

\* groups the copy loop has left with a file not copied
FailedGroups ==
    {k \in 1..Len(organized_files) :
        /\ k < g
        /\ \E m \in 1..Len(organized_files[k].files) :
              organized_files[k].files[m].target_path = NoneVal}

Counters ==
    {"total_files", "organized", "duplicates_removed", "near_duplicates_found",
     "folders_created", "manual_sort", "metadata_parsed", "album_art_extracted"}
ScanCounters ==
    {"total_files", "duplicates_removed", "manual_sort", "metadata_parsed"}

\* no counter decreases; the per-file counters grow by at most 1, the scan
\* counters only in the iteration of one file, after which the loop moves
\* on, and organized only when an entry not yet copied is copied
CountersStep ==
    /\ \A c \in Counters : stats'[c] >= stats[c]
    /\ \A c \in ScanCounters \cup {"organized"} : stats'[c] <= stats[c] + 1
    /\ (\E c \in ScanCounters : stats'[c] # stats[c]) =>
          pc = "scan" /\ i' = i + 1
    /\ stats'.organized # stats.organized =>
          /\ pc = "copy"
          /\ organized_files[g].files[j].target_path = NoneVal
          /\ organized_files'[g].files[j].target_path # NoneVal

\* C10: no statistics counter ever decreases, and each source file adds at
\* most once to each of total_files, duplicates_removed, manual_sort,
\* metadata_parsed and organized.
C10_CountersMonotonic ==
    /\ [][CountersStep]_vars
    /\ [](/\ Injective(all_files)
          /\ \A c \in ScanCounters : stats[c] <= Cardinality(Scanned)
          /\ stats.organized <= Len(PlanEntries))

\* a finished run of three files counted a near-duplicate and two copies
C10_CountedRun ==
    /\ pc = "done"
    /\ stats.total_files = 3
    /\ stats.metadata_parsed = 2
    /\ stats.organized = 2
    /\ stats.near_duplicates_found = 1
    /\ stats.folders_created = 2

\* files the scan has visited whose content could not be read, so that
\* get_file_hash returned None, and the visited files that could be read
HashFailed == {k \in Scanned : ~all_files[k].readable}
Hashed == Scanned \ HashFailed
\* first readable file of its content among the visited files
FirstReadable ==
    {k \in Hashed : \A m \in Hashed : m < k =>
                        all_files[m].content # all_files[k].content}
IndexedPaths == {duplicates[h] : h \in DOMAIN duplicates}

\* the scan loop leaves the iteration of a file without a hash by `continue`:
\* only total_files and the loop position change
HashFailureStep ==
    (pc = "scan" /\ i <= Len(all_files) /\ ~all_files[i].readable) =>
        /\ pc' = "scan"
        /\ i' = i + 1
        /\ stats' = [stats EXCEPT !.total_files = @ + 1]
        /\ UNCHANGED <<duplicates, organized_files, near_duplicates,
                       quality_stats, fs, dirs>>

\* C11: a file whose hash cannot be computed is skipped and the scan goes on:
\* it is not in the duplicate index, adds nothing to duplicates_removed, is
\* not in the plan, and every other visited file, the ones after it included,
\* is indexed and planned or counted as a duplicate as usual.
C11_HashFailureIsSkipped ==
    /\ [][HashFailureStep]_vars
    /\ [](/\ \A k \in HashFailed :
                /\ all_files[k].path \notin IndexedPaths
                /\ TimesPlanned(all_files[k].path) = 0
          /\ stats.duplicates_removed = Cardinality(Hashed \ FirstReadable)
          /\ \A k \in FirstReadable :
                /\ all_files[k].path \in IndexedPaths
                /\ TimesPlanned(all_files[k].path) = 1
          /\ pc \notin {"start", "clean_name", "clean_name_done",
                        "parse_metadata", "parse_metadata_done"} =>
                stats.total_files = Cardinality(Scanned)
          /\ pc \notin {"start", "scan"} => Scanned = 1..Len(all_files))

\* the unreadable file came first, and the two files after it were handled:
\* one planned and copied, its twin counted as a duplicate
C11_ScanWentOnAfterFailure ==
    /\ pc = "done"
    /\ Len(all_files) = 3
    /\ HashFailed = {1}
    /\ FirstReadable = {2}
    /\ stats.total_files = 3
    /\ stats.duplicates_removed = 1
    /\ stats.organized = 1

\* the filename tier is the one in use: no usable artist tag, no usable path
FilenameTierInUse ==
    pc = "parse_metadata_done" /\ ~TagTierApplies /\ ~PathTierApplies
HasSeparator == Find(FilenameBody, <<" ", "-", " ">>) > 0
LeftIsStopWord == lower(FilenameLeft) \in common_words
LeftIsNumeric ==
    Len(FilenameLeft) > 0 /\ \A k \in 1..Len(FilenameLeft) : FilenameLeft[k] \in Digits
SplitConditions ==
    /\ Len(FilenameLeft) >= 2
    /\ Len(FilenameRight) >= 2
    /\ ~LeftIsStopWord
    /\ ~LeftIsNumeric

\* C12: in the filename tier a stem that contains " - " after its track
\* prefix is removed is split into artist and track only if both trimmed
\* sides have at least two characters, the left side lowercased is no stop
\* word and the left side is not all digits; every other file gets the
\* artist 'Manual Sort Needed' and the album ''.
C12_FilenameSplitGuards ==
    FilenameTierInUse =>
        /\ ret.artist # ManualSortNeeded => HasSeparator /\ SplitConditions
        /\ HasSeparator /\ SplitConditions =>
              /\ ret.artist = clean_name(FilenameLeft)
              /\ ret.album = Singles
              /\ ret.track = clean_name(FilenameRight)
        /\ ~(HasSeparator /\ SplitConditions) =>
              ret.artist = ManualSortNeeded /\ ret.album = <<>>

\* 'The - cd.mp3' has a separator and two long enough sides, but its left
\* side is a stop word: it got the sentinel
C12_StopWordRejected ==
    /\ FilenameTierInUse
    /\ HasSeparator
    /\ FilenameLeft = <<"T", "h", "e">>
    /\ Len(FilenameRight) >= 2
    /\ ret.artist = ManualSortNeeded
    /\ ret.album = <<>>

\* what parse_metadata returned for the k-th file, and the two candidate
\* group keys of that file: from the resolved artist and title, and from the
\* artist and title tags as read_metadata returned them
ResolvedOf(k) ==
    parse_metadata(all_files[k].path, all_files[k].tags, config.skip_folders)
ResolvedKey(k) ==
    lower(ResolvedOf(k).artist) \o <<"_">> \o lower(ResolvedOf(k).track)
HasBothTags(k) ==
    Truthy(all_files[k].tags.artist) /\ Truthy(all_files[k].tags.title)
TagKey(k) ==
    lower(all_files[k].tags.artist) \o <<"_">> \o lower(all_files[k].tags.title)
GroupOf(key) ==
    IF key \in DOMAIN near_duplicates THEN near_duplicates[key] ELSE <<>>
\* the paths of the files at the positions S, in enumeration order
RECURSIVE PathsInOrder(_)
PathsInOrder(S) ==
    IF S = {} THEN <<>>
    ELSE LET m == CHOOSE x \in S : \A y \in S : x <= y
         IN  <<all_files[m].path>> \o PathsInOrder(S \ {m})

\* C13 as stated: with find_near_duplicates on, the group under the key made
\* of the lowercased resolved artist and resolved title of a file that
\* reached the resolver holds, in enumeration order, all such files with
\* that resolved key, whichever tier resolved them.
C13_GroupedByResolvedKey ==
    config.find_near_duplicates =>
        \A k \in FirstReadable :
            GroupOf(ResolvedKey(k)) =
                PathsInOrder({m \in FirstReadable :
                                 ResolvedKey(m) = ResolvedKey(k)})

\* C13, amended: the key is made of the lowercased artist and title tags as
\* read; a file that reached the resolver with both tags non-empty is in the
\* group of that key, which lists those files in enumeration order, whichever
\* tier resolved them; a file lacking one of the two tags is in no group, and
\* no group has any other member. This holds after every iteration of the
\* scan loop, the last one included; nothing changes the groups afterwards.
C13_GroupedByTagKey ==
    pc = "scan" =>
    /\ config.find_near_duplicates =>
          \A k \in FirstReadable :
              IF HasBothTags(k)
              THEN GroupOf(TagKey(k)) =
                      PathsInOrder({m \in FirstReadable :
                                       HasBothTags(m) /\ TagKey(m) = TagKey(k)})
              ELSE \A key \in DOMAIN near_duplicates :
                      all_files[k].path \notin Range(near_duplicates[key])
    /\ \A key \in DOMAIN near_duplicates :
          \A n \in 1..Len(near_duplicates[key]) :
              \E k \in FirstReadable :
                  /\ all_files[k].path = near_duplicates[key][n]
                  /\ HasBothTags(k)
                  /\ TagKey(k) = key
    /\ ~config.find_near_duplicates => DOMAIN near_duplicates = {}

\* two files of different content tagged Queen / Song are in one group, the
\* one enumerated first listed first, although one lies in Opera and the
\* other in Singles
C13_TwoEncodesGrouped ==
    /\ config.find_near_duplicates
    /\ GroupOf(lower(Queen) \o <<"_">> \o lower(Song)) =
          << <<Root, Lib, XMp3>>, <<Root, Lib, SongMp3>> >>
    /\ FileAt(<<Root, Lib, XMp3>>).content # FileAt(<<Root, Lib, SongMp3>>).content
    /\ \E k \in FirstReadable : ResolvedOf(k).album = Singles
    /\ \E k \in FirstReadable : ResolvedOf(k).album = Opera

\* a step taken while the scan loop runs or the preview is shown neither
\* writes a file below the organized tree nor creates a directory in it
ScanLeavesTargetTree == pc = "scan" => UNCHANGED <<fs, dirs>>

\* C14: organize() has two phases: until every enumerated file is hashed
\* and resolved into the plan nothing is copied and no artist/album
\* directory is created, and after a declined preview nothing was copied,
\* organized is 0 and neither playlists nor reports exist.
C14_TwoPhaseCommit ==
    /\ [][ScanLeavesTargetTree]_vars
    /\ [](pc = "cancelled" =>
            /\ config.interactive_mode
            /\ stats.organized = 0
            /\ \A k \in 1..Len(PlanEntries) : PlanEntries[k].target_path = NoneVal
            /\ playlists = <<>>
            /\ reports = {})

\* positions of the visited files that were skipped: exact duplicates and
\* files without a hash; and the paths listed in some near-duplicate group
Skipped == Scanned \ FirstReadable
GroupedPaths ==
    UNION {Range(near_duplicates[key]) : key \in DOMAIN near_duplicates}

\* C15: near-duplicate grouping sees survivors only: a file skipped as an
\* exact duplicate or for an unreadable hash is in no group, the paths of a
\* group have pairwise distinct content hashes, and near_duplicates_found,
\* set by the report step, is the surplus of groups made of kept files only.
C15_GroupsHoldSurvivorsOnly ==
    /\ \A k \in Skipped : all_files[k].path \notin GroupedPaths
    /\ \A key \in DOMAIN near_duplicates :
          \A a, b \in 1..Len(near_duplicates[key]) :
              a # b =>
                 /\ get_file_hash(FileAt(near_duplicates[key][a])) # NoneVal
                 /\ get_file_hash(FileAt(near_duplicates[key][a])) #
                       get_file_hash(FileAt(near_duplicates[key][b]))
    /\ stats.near_duplicates_found =
          IF pc \in {"summary", "done"}
          THEN Cardinality({k \in FirstReadable :
                               all_files[k].path \in GroupedPaths})
               - Cardinality(DOMAIN near_duplicates)
          ELSE 0

\* two files of equal content and equal tags were visited: the group of
\* their key lists the first only, and the finished run counts no
\* near-duplicate
C15_TwinNotGrouped ==
    /\ pc = "done"
    /\ config.find_near_duplicates
    /\ \E k \in Skipped :
          /\ all_files[k].readable
          /\ HasBothTags(k)
          /\ Len(GroupOf(TagKey(k))) = 1
          /\ all_files[k].path \notin GroupedPaths
    /\ stats.duplicates_removed = 1
    /\ stats.near_duplicates_found = 0

\* the scan loop has visited every enumerated file
ScanEnded == pc \notin {"start"} /\ i > Len(all_files)

\* C16: every enumerated file is accounted for once: a visited file is a
\* duplicate, a hash failure or a plan entry, so that when the scan ends
\* total_files, the number of enumerated files, is the sum of the three; and
\* a committed run that recorded no failure has copied every plan entry.
C16_EveryFileAccountedFor ==
    /\ stats.total_files =
          stats.duplicates_removed + Cardinality(HashFailed) + Len(PlanEntries)
    /\ ScanEnded =>
          /\ stats.total_files = Len(all_files)
          /\ Len(all_files) =
                stats.duplicates_removed
                + Cardinality({k \in 1..Len(all_files) : ~all_files[k].readable})
                + Len(PlanEntries)
    /\ pc = "done" /\ Len(stats.errors) = 0 =>
          /\ stats.organized = Len(PlanEntries)
          /\ \A k \in 1..Len(PlanEntries) : PlanEntries[k].target_path # NoneVal

\* a finished run without failure over a file, its duplicate and an
\* unreadable file, in some order: one plan entry, and it was copied
C16_ThreeWaysAccounted ==
    /\ pc = "done"
    /\ Len(stats.errors) = 0
    /\ stats.total_files = 3
    /\ stats.duplicates_removed = 1
    /\ Cardinality(HashFailed) = 1
    /\ Len(PlanEntries) = 1
    /\ PlanEntries[1].target_path # NoneVal
    /\ stats.organized = 1

====
